---- MODULE Spec2Model ----
(***************************************************************************)
(* Model of the iTunes bulk collectors of app-store-analysis:              *)
(*   ExtendedITunesCollector  (src/data_collection/itunes_extended_collector.py) *)
(*   QuickITunesCollector     (src/data_collection/itunes_quick_collector.py)    *)
(*   ComprehensiveCollector   (src/data_collection/itunes_comprehensive.py)      *)
(*   ITunesAPIClient          (src/data_collection/itunes_api.py)                *)
(* One collector object is constructed per run; the run issues its query   *)
(* list in order, one request per query, and merges the returned records   *)
(* into all_apps keyed by trackId.  The remote service is the environment: *)
(* every response (transport error, status, body) is chosen freely.        *)
(***************************************************************************)
EXTENDS Integers, Sequences, FiniteSets, TLC

\* ---------------------------------------------------------------- bounds
\* number of queries in the run's query list
NumQueries == 2
\* longest result list a response carries
MaxLen == 2
\* trackIds range over 1..MaxId; 0 stands for a missing, None or 0 trackId
MaxId == 3
\* get_page: largest retries argument, number of get_page calls
MaxRetries == 3
MaxPages == 2
\* scrape_chart: links on the chart page, app ids on it, largest --limit
ChartLinks == 3
ChartIds == 2
ChartLimit == 2
\* get_top_apps_search: number of popular_terms, largest limit
TopTerms == 2
TopLimit == 2
\* largest limit a caller passes
MaxLimit == 400
\* comparing two orders of a query list: longest result list, largest trackId
OrderLen == 1
OrderIds == 2

\* kind, state, idx, all_apps, stats: the collector object and the position of
\* its run.  calls: the queries requested so far, in order.  last: the most
\* recent call (class of its response, what it handed back).  seen: what the
\* service has answered so far (first sighting of every trackId, record
\* counts), kept to state the properties against.  pending: session.get has
\* been called and has not come back yet.  requests: number of session.get
\* calls so far.  recent: one get_recent_apps call, the answers the service
\* gives to its requests and what the call ends with.  persist: the
\* save_data calls, the documents they wrote, and how main ended.  params:
\* one call of search_apps or get_apps_by_category seen from its caller, the
\* keyword arguments passed and the query parameters of the request.
\* order: the same query list collected by two new ExtendedITunesCollectors,
\* one in the listed order and one in another order.
\* scraper: an AppStoreScraper and the get_page call it is in.  chart: one
\* scrape_chart call of app_store_chart_scraper, the chart page it gets and
\* what it has done so far.  top: one get_top_apps_search call of
\* TopAppsCollector, the answers to its requests and what it returns.
VARIABLES kind, state, idx, all_apps, stats, calls, last, seen, pending, requests,
          recent, persist, params, order, scraper, chart, top

\* the state of the functions that are not part of a collector's run
tools == <<params, order, scraper, chart, top>>

vars == <<kind, state, idx, all_apps, stats, calls, last, seen, pending, requests,
          recent, persist, tools>>

\* the operations of ITunesAPIClient that send a request: search_apps,
\* get_apps_by_category, get_app_by_id
ApiKinds == {"api", "category", "lookup"}

\* the loops that are run: the three collectors' search loops and a loop
\* over each operation of ITunesAPIClient
Kinds == {"extended", "quick", "comprehensive"} \cup ApiKinds

\* ------------------------------------------------- responses of the service
\* One element of data["results"]: a dict with a trackId (0 = falsy or
\* missing) or a non-dict value on which app.get / app.keys raises.
Items(k) ==
    IF k \in ApiKinds
    THEN {[dict |-> TRUE, trackId |-> 1], [dict |-> FALSE, trackId |-> 0]}
    ELSE [dict : {TRUE}, trackId : 0..MaxId] \cup {[dict |-> FALSE, trackId |-> 0]}

ResultLists(k) == UNION {[1..n -> Items(k)] : n \in 0..MaxLen}

Resp(rk, hr, rs, hc, n) ==
    [kind |-> rk, hasResults |-> hr, results |-> rs, hasCount |-> hc, resultCount |-> n]

\* session.get raises; status != 200; response.json() raises; the JSON
\* value is not an object (data.get raises)
FailureResponses ==
    {Resp(rk, FALSE, <<>>, FALSE, 0) : rk \in {"exc", "non200", "badjson", "notdict"}}

\* get_apps_by_category is called with a name that is not in APP_CATEGORIES:
\* no request is sent
InvalidCategory == Resp("invalid", FALSE, <<>>, FALSE, 0)

\* 200 responses whose body is a JSON object.  Only ITunesAPIClient reads
\* resultCount, so only its responses vary it (absent, or any count).
Bodies(k) ==
    IF k \in ApiKinds
    THEN {Resp("body", TRUE, rs, TRUE, n) : rs \in ResultLists(k), n \in 0..MaxLen}
         \cup {Resp("body", TRUE, rs, FALSE, 0) : rs \in ResultLists(k)}
         \cup {Resp("body", FALSE, <<>>, TRUE, n) : n \in 0..MaxLen}
         \cup {Resp("body", FALSE, <<>>, FALSE, 0)}
    ELSE {Resp("body", TRUE, rs, TRUE, Len(rs)) : rs \in ResultLists(k)}
         \cup {Resp("body", FALSE, <<>>, TRUE, 0)}

Max(S) == CHOOSE x \in S : \A y \in S : x >= y

\* The collectors only test a trackId for truth and for equality with
\* another, so the apps of the service are numbered in the order in which
\* they first come up in a response: after n apps have come up, the next
\* new one is n + 1.
Numbered(rs, n) ==
    \A p \in 1..Len(rs) :
        rs[p].trackId <= 1 + Max({n} \cup {rs[q].trackId : q \in 1..(p - 1)})

\* the answers session.get can give once n apps have come up
Responses(k, n) ==
    FailureResponses \cup {r \in Bodies(k) : Numbered(r.results, n)}

\* data.get("results", [])
GetResults(data) == IF data.hasResults THEN data.results ELSE <<>>

\* data.get("resultCount", 0)
GetResultCount(data) == IF data.hasCount THEN data.resultCount ELSE 0

\* The record object returned at position p of the response to call c.  Its
\* attributes are whatever that response carried, so (call, pos) identifies
\* them.
App(c, p, item) == [trackId |-> item.trackId, call |-> c, pos |-> p]

\* Python truthiness of a trackId
Truthy(track_id) == track_id # 0

\* ------------------------------------------------------ dict (all_apps)
\* A dict is its insertion-ordered sequence of entries.
DictHas(d, k) == \E i \in 1..Len(d) : d[i].key = k

DictIndex(d, k) == CHOOSE i \in 1..Len(d) : d[i].key = k

DictGet(d, k) == d[DictIndex(d, k)].value

DictKeys(d) == {d[i].key : i \in 1..Len(d)}

DictSetAppend(d, k, v) == Append(d, [key |-> k, value |-> v])

\* d[k] = v
DictSet(d, k, v) ==
    IF DictHas(d, k)
    THEN [d EXCEPT ![DictIndex(d, k)] = [key |-> k, value |-> v]]
    ELSE Append(d, [key |-> k, value |-> v])

\* ------------------------------------------------------------ statistics
\* self.stats, and with it field_count: the 'count' that ITunesAPIClient's
\* self.field_stats keeps for the fields every record has
InitStats ==
    [total_requests |-> 0, successful_requests |-> 0, failed_requests |-> 0,
     total_apps |-> 0, unique_apps |-> 0, field_count |-> 0]

\* what one call hands back: none = returned None, len = length of the
\* returned list (QuickITunesCollector: the returned count), raised = an
\* exception left the call, error = logger.error was called, slept = the
\* call slept before control went on
Ret(none, len, error, slept) ==
    [none |-> none, len |-> len, raised |-> FALSE, error |-> error, slept |-> slept]

\* ------------------------------------------------ what the service answered
IsJunk(item) == ~item.dict

HasJunk(results) == \E p \in 1..Len(results) : IsJunk(results[p])

\* number of leading elements of a result list a "for app in results" loop
\* gets through before an element raises
ReachedLen(results) ==
    IF HasJunk(results)
    THEN (CHOOSE p \in 1..Len(results) :
            IsJunk(results[p]) /\ \A q \in 1..(p - 1) : ~IsJunk(results[q])) - 1
    ELSE Len(results)

\* positions of response r that hold a record with trackId k and that the
\* loop gets to
Sightings(r, k) ==
    IF r.kind = "body"
    THEN {p \in 1..ReachedLen(GetResults(r)) : GetResults(r)[p].trackId = k}
    ELSE {}

Min(S) == CHOOSE x \in S : \A y \in S : x <= y

Rec(t) == [dict |-> TRUE, trackId |-> t]

\* the responses of the end-to-end scenario: "game" answers with the
\* records 1 and 2, "social" with 2 and 3
GameResponse == Resp("body", TRUE, <<Rec(1), Rec(2)>>, TRUE, 2)

SocialResponse == Resp("body", TRUE, <<Rec(2), Rec(3)>>, TRUE, 2)

Scenario == <<GameResponse, SocialResponse>>

Unseen == [call |-> 0, pos |-> 0]

\* the records of response r for which app.get('trackId') is falsy
FalsyRecords(r) ==
    Cardinality({p \in 1..Len(GetResults(r)) :
                   GetResults(r)[p].dict /\ ~Truthy(GetResults(r)[p].trackId)})

InitSeen ==
    [first |-> [k \in 1..MaxId |-> Unseen], again |-> FALSE,
     raw |-> 0, returned |-> 0, scenario |-> 0, ids |-> 0, delayed |-> FALSE,
     falsy |-> 0]

\* seen after call c was answered with r and handed back ret:
\*   first[k]  where trackId k was first sighted (call, position)
\*   again     some trackId was sighted in a later call than its first
\*   raw       sum of len(results) over the 200 responses with a body
\*   returned  sum of the lengths of the lists handed back
\*   scenario  number of leading calls answered as the scenario prescribes
\*   ids       number of apps that have come up in a response
\*   delayed   the collector has slept since its most recent request
\*   falsy     number of records returned so far whose trackId is missing,
\*             None or 0
SeenAfter(s, r, c, ret) ==
    [first |-> [k \in 1..MaxId |->
                  IF s.first[k] # Unseen \/ Sightings(r, k) = {} THEN s.first[k]
                  ELSE [call |-> c, pos |-> Min(Sightings(r, k))]],
     again |-> s.again \/ \E k \in 1..MaxId : s.first[k] # Unseen /\ Sightings(r, k) # {},
     raw |-> s.raw + (IF r.kind = "body" THEN Len(GetResults(r)) ELSE 0),
     returned |-> s.returned + (IF ret.none THEN 0 ELSE ret.len),
     scenario |-> IF s.scenario = c - 1 /\ c <= Len(Scenario) /\ r = Scenario[c]
                  THEN c ELSE s.scenario,
     ids |-> Max({s.ids} \cup {r.results[p].trackId : p \in 1..Len(r.results)}),
     delayed |-> IF r.kind = "invalid" THEN s.delayed \/ ret.slept ELSE ret.slept,
     falsy |-> s.falsy + FalsyRecords(r)]

\* the most recent call: the class of its response and what it handed back
LastCall(r, ret) ==
    [resp |-> r.kind, junk |-> r.kind = "body" /\ HasJunk(GetResults(r)), ret |-> ret]

\* ------------------------------------------ the dedup loop over a result list
\* "if track_id and track_id not in self.all_apps"
ShouldStoreAlways(track_id, apps) == Truthy(track_id)

ShouldStore(track_id, apps) == Truthy(track_id) /\ ~DictHas(apps, track_id)

\* the loop body of ExtendedITunesCollector / QuickITunesCollector
StoreStepCountsSightings(apps, uniq, app) ==
    IF Truthy(app.trackId)
    THEN [apps |-> IF DictHas(apps, app.trackId) THEN apps
                   ELSE DictSet(apps, app.trackId, app),
          uniq |-> uniq + 1]
    ELSE [apps |-> apps, uniq |-> uniq]

StoreStep(apps, uniq, app) ==
    IF ShouldStore(app.trackId, apps)
    THEN [apps |-> DictSet(apps, app.trackId, app), uniq |-> uniq + 1]
    ELSE [apps |-> apps, uniq |-> uniq]

\* "for app in results": stops with raised = TRUE at the first element that
\* is not a dict (app.get raises); the elements before it stay processed
RECURSIVE StoreLoop(_, _, _, _, _)
StoreLoop(apps, uniq, results, c, p) ==
    IF p > Len(results) THEN [apps |-> apps, uniq |-> uniq, raised |-> FALSE]
    ELSE IF ~results[p].dict THEN [apps |-> apps, uniq |-> uniq, raised |-> TRUE]
    ELSE LET s == StoreStep(apps, uniq, App(c, p, results[p]))
         IN  StoreLoop(s.apps, s.uniq, results, c, p + 1)

\* the loop body of ComprehensiveCollector.search_batch: "if track_id:"
BatchStoreStep(apps, app) ==
    IF Truthy(app.trackId) THEN DictSet(apps, app.trackId, app) ELSE apps

RECURSIVE BatchStoreLoop(_, _, _, _)
BatchStoreLoop(apps, results, c, p) ==
    IF p > Len(results) THEN [apps |-> apps, raised |-> FALSE]
    ELSE IF ~results[p].dict THEN [apps |-> apps, raised |-> TRUE]
    ELSE BatchStoreLoop(BatchStoreStep(apps, App(c, p, results[p])), results, c, p + 1)

\* ------------------------------------------ ExtendedITunesCollector.search_apps
\* "except Exception": log, count the failure, return None; finally sleeps
ExtOnExceptionUncounted(apps, st) ==
    [apps |-> apps, stats |-> st, ret |-> Ret(TRUE, 0, TRUE, TRUE)]

ExtOnException(apps, st) ==
    [apps |-> apps, stats |-> [st EXCEPT !.failed_requests = @ + 1],
     ret |-> Ret(TRUE, 0, TRUE, TRUE)]

\* r is the outcome of session.get for call number c
ExtendedSearchApps(apps, st, r, c) ==
    IF r.kind = "exc" THEN ExtOnException(apps, st)
    ELSE
      LET st1 == [st EXCEPT !.total_requests = @ + 1] IN
      IF r.kind = "non200"
      THEN [apps |-> apps, stats |-> [st1 EXCEPT !.failed_requests = @ + 1],
            ret |-> Ret(TRUE, 0, TRUE, TRUE)]
      ELSE IF r.kind = "badjson" THEN ExtOnException(apps, st1)
      ELSE
        LET st2 == [st1 EXCEPT !.successful_requests = @ + 1] IN
        IF r.kind = "notdict" THEN ExtOnException(apps, st2)
        ELSE
          LET results == GetResults(r)
              loop == StoreLoop(apps, st2.unique_apps, results, c, 1)
              st3 == [st2 EXCEPT !.unique_apps = loop.uniq]
          IN  IF loop.raised THEN ExtOnException(loop.apps, st3)
              ELSE [apps |-> loop.apps,
                    stats |-> [st3 EXCEPT !.total_apps = @ + Len(results)],
                    ret |-> Ret(FALSE, Len(results), FALSE, TRUE)]

\* --------------------------------------------- QuickITunesCollector.search_apps
\* "except Exception": log, return 0; the class keeps no failure counter
QuickOnException(apps, st) ==
    [apps |-> apps, stats |-> st, ret |-> Ret(FALSE, 0, TRUE, TRUE)]

QuickSearchApps(apps, st, r, c) ==
    IF r.kind = "exc" THEN QuickOnException(apps, st)
    ELSE
      LET st1 == [st EXCEPT !.total_requests = @ + 1] IN
      IF r.kind = "non200"
      THEN [apps |-> apps, stats |-> st1, ret |-> Ret(FALSE, 0, FALSE, TRUE)]
      ELSE IF r.kind = "badjson" THEN QuickOnException(apps, st1)
      ELSE
        LET st2 == [st1 EXCEPT !.successful_requests = @ + 1] IN
        IF r.kind = "notdict" THEN QuickOnException(apps, st2)
        ELSE
          LET results == GetResults(r)
              loop == StoreLoop(apps, st2.unique_apps, results, c, 1)
              st3 == [st2 EXCEPT !.unique_apps = loop.uniq]
          IN  IF loop.raised THEN QuickOnException(loop.apps, st3)
              ELSE [apps |-> loop.apps, stats |-> st3,
                    ret |-> Ret(FALSE, Len(results), FALSE, TRUE)]

\* ------------------------- one iteration of ComprehensiveCollector.search_batch
\* "except Exception": log and continue; the sleep inside the try is skipped
BatchOnExceptionForgets(apps, st) ==
    [apps |-> <<>>, stats |-> st, ret |-> Ret(TRUE, 0, TRUE, FALSE)]

BatchOnException(apps, st) ==
    [apps |-> apps, stats |-> st, ret |-> Ret(TRUE, 0, TRUE, FALSE)]

BatchIteration(apps, st, r, c) ==
    IF r.kind = "exc" THEN BatchOnException(apps, st)
    ELSE IF r.kind = "non200"
    THEN [apps |-> apps, stats |-> st, ret |-> Ret(TRUE, 0, FALSE, TRUE)]
    ELSE IF r.kind \in {"badjson", "notdict"} THEN BatchOnException(apps, st)
    ELSE
      LET results == GetResults(r)
          loop == BatchStoreLoop(apps, results, c, 1)
      IN  IF loop.raised THEN BatchOnException(loop.apps, st)
          ELSE [apps |-> loop.apps, stats |-> st, ret |-> Ret(TRUE, 0, FALSE, TRUE)]

\* ------------------------------------------------- ITunesAPIClient.search_apps
\* "except Exception": log, count the failure, return None; finally sleeps
ApiOnExceptionNoSleep(apps, st) ==
    [apps |-> apps, stats |-> [st EXCEPT !.failed_requests = @ + 1],
     ret |-> Ret(TRUE, 0, TRUE, FALSE)]

ApiOnException(apps, st) ==
    [apps |-> apps, stats |-> [st EXCEPT !.failed_requests = @ + 1],
     ret |-> Ret(TRUE, 0, TRUE, TRUE)]

\* _analyze_response_fields counts the fields of every record it gets to
Analyzed(st, results) == [st EXCEPT !.field_count = @ + ReachedLen(results)]

\* _analyze_response_fields raises at the first element without keys()
AnalyzeRaises(results) == \E p \in 1..Len(results) : ~results[p].dict

ApiSearchApps(apps, st, r, c) ==
    IF r.kind = "exc" THEN ApiOnException(apps, st)
    ELSE
      LET st1 == [st EXCEPT !.total_requests = @ + 1] IN
      IF r.kind = "non200"
      THEN [apps |-> apps, stats |-> [st1 EXCEPT !.failed_requests = @ + 1],
            ret |-> Ret(TRUE, 0, TRUE, TRUE)]
      ELSE IF r.kind = "badjson" THEN ApiOnException(apps, st1)
      ELSE
        LET st2 == [st1 EXCEPT !.successful_requests = @ + 1] IN
        IF r.kind = "notdict" THEN ApiOnException(apps, st2)
        ELSE
          LET results == GetResults(r)
              st3 == Analyzed([st2 EXCEPT !.total_apps = @ + GetResultCount(r)], results)
          IN  IF Len(results) > 0 /\ AnalyzeRaises(results) THEN ApiOnException(apps, st3)
              ELSE IF ~r.hasCount THEN ApiOnException(apps, st3)
              ELSE [apps |-> apps, stats |-> st3,
                    ret |-> Ret(FALSE, Len(results), FALSE, TRUE)]

\* ---------------------------------------- ITunesAPIClient.get_apps_by_category
\* a name outside APP_CATEGORIES returns None before the try: no request, no
\* counter, no sleep
CategoryRejectedAsFailure(apps, st) ==
    [apps |-> apps, stats |-> [st EXCEPT !.failed_requests = @ + 1],
     ret |-> Ret(TRUE, 0, TRUE, FALSE)]

CategoryRejected(apps, st) ==
    [apps |-> apps, stats |-> st, ret |-> Ret(TRUE, 0, TRUE, FALSE)]

ApiGetAppsByCategory(apps, st, r, c) ==
    IF r.kind = "invalid" THEN CategoryRejected(apps, st)
    ELSE IF r.kind = "exc" THEN ApiOnException(apps, st)
    ELSE
      LET st1 == [st EXCEPT !.total_requests = @ + 1] IN
      IF r.kind = "non200"
      THEN [apps |-> apps, stats |-> [st1 EXCEPT !.failed_requests = @ + 1],
            ret |-> Ret(TRUE, 0, TRUE, TRUE)]
      ELSE IF r.kind = "badjson" THEN ApiOnException(apps, st1)
      ELSE
        LET st2 == [st1 EXCEPT !.successful_requests = @ + 1] IN
        IF r.kind = "notdict" THEN ApiOnException(apps, st2)
        ELSE
          LET results == GetResults(r)
              st3 == Analyzed([st2 EXCEPT !.total_apps = @ + GetResultCount(r)], results)
          IN  IF Len(results) > 0 /\ AnalyzeRaises(results) THEN ApiOnException(apps, st3)
              ELSE IF ~r.hasCount THEN ApiOnException(apps, st3)
              ELSE [apps |-> apps, stats |-> st3,
                    ret |-> Ret(FALSE, Len(results), FALSE, TRUE)]

\* ----------------------------------------------- ITunesAPIClient.get_app_by_id
\* data["results"][0] raises when the key is absent or the list is empty
ApiGetAppById(apps, st, r, c) ==
    IF r.kind = "exc" THEN ApiOnException(apps, st)
    ELSE
      LET st1 == [st EXCEPT !.total_requests = @ + 1] IN
      IF r.kind = "non200"
      THEN [apps |-> apps, stats |-> [st1 EXCEPT !.failed_requests = @ + 1],
            ret |-> Ret(TRUE, 0, TRUE, TRUE)]
      ELSE IF r.kind = "badjson" THEN ApiOnException(apps, st1)
      ELSE
        LET st2 == [st1 EXCEPT !.successful_requests = @ + 1] IN
        IF r.kind = "notdict" THEN ApiOnException(apps, st2)
        ELSE IF GetResultCount(r) > 0
        THEN IF ~r.hasResults \/ Len(r.results) = 0 THEN ApiOnException(apps, st2)
             ELSE [apps |-> apps, stats |-> st2, ret |-> Ret(FALSE, 1, FALSE, TRUE)]
        ELSE [apps |-> apps, stats |-> st2, ret |-> Ret(TRUE, 0, FALSE, TRUE)]

\* ----------------------------------------------- ITunesAPIClient.get_recent_apps
\* number of search terms and of categories the call is given
RecentTerms == 1

RecentCategories == 1

\* currentVersionReleaseDate of a record: within the last `days` days,
\* older, or absent / not a date that parses
Dates == {"recent", "old", "none"}

\* primaryGenreName of a record, "none" when it has none
Genres == {"Games", "none"}

RecentItems ==
    [dict : {TRUE}, trackId : 1..MaxId, date : Dates, genre : Genres]
    \cup {[dict |-> TRUE, trackId |-> 0, date |-> "none", genre |-> "none"],
          [dict |-> FALSE, trackId |-> 0, date |-> "none", genre |-> "none"]}

RecentLists == UNION {[1..n -> RecentItems] : n \in 0..MaxLen}

\* what the service answers to one request of the call
RecentResponses ==
    FailureResponses
    \cup {Resp("body", TRUE, rs, TRUE, Len(rs)) : rs \in RecentLists}
    \cup {Resp("body", FALSE, <<>>, TRUE, 0), Resp("body", TRUE, <<>>, FALSE, 0)}

\* the answers to the requests of the call, in the order of the requests:
\* the search terms first, the categories after them
RECURSIVE AnswersNumbered(_, _, _)
AnswersNumbered(answers, i, n) ==
    IF i > Len(answers) THEN TRUE
    ELSE /\ Numbered(answers[i].results, n)
         /\ AnswersNumbered(answers, i + 1,
              Max({n} \cup {answers[i].results[p].trackId : p \in 1..Len(answers[i].results)}))

\* all_apps: the local list before "Duplikasyonları kaldır"
NoResult ==
    [called |-> FALSE, raised |-> FALSE, all_apps |-> <<>>, recent_apps |-> <<>>,
     total_searched |-> 0, total_recent |-> 0, by_category |-> <<>>]

NoRecent == [answers |-> <<>>, valid |-> <<>>, result |-> NoResult]

\* the list a search_apps / get_apps_by_category call hands back, as records
Returned(r, c) ==
    [p \in 1..Len(GetResults(r)) |->
        [trackId |-> GetResults(r)[p].trackId, date |-> GetResults(r)[p].date,
         genre |-> GetResults(r)[p].genre, call |-> c, pos |-> p]]

\* "apps = self.search_apps(term); if apps: all_apps.extend(apps)"
RECURSIVE RecentSearchLoop(_, _, _, _)
RecentSearchLoop(st, list, answers, i) ==
    IF i > RecentTerms THEN [stats |-> st, list |-> list]
    ELSE LET out == ApiSearchApps(<<>>, st, answers[i], i)
             apps == IF out.ret.none THEN <<>> ELSE Returned(answers[i], i)
         IN  RecentSearchLoop(out.stats, list \o apps, answers, i + 1)

\* "if category in APP_CATEGORIES: apps = self.get_apps_by_category(...)"
RECURSIVE RecentCategoryLoop(_, _, _, _, _)
RecentCategoryLoop(st, list, answers, valid, j) ==
    IF j > RecentCategories THEN [stats |-> st, list |-> list]
    ELSE IF ~valid[j] THEN RecentCategoryLoop(st, list, answers, valid, j + 1)
    ELSE LET c == RecentTerms + j
             out == ApiGetAppsByCategory(<<>>, st, answers[c], c)
             apps == IF out.ret.none THEN <<>> ELSE Returned(answers[c], c)
         IN  RecentCategoryLoop(out.stats, list \o apps, answers, valid, j + 1)

\* "if track_id and track_id not in unique_apps: unique_apps[track_id] = app"
RECURSIVE RecentUnique(_, _, _)
RecentUnique(unique_apps, list, p) ==
    IF p > Len(list) THEN unique_apps
    ELSE RecentUnique(StoreStep(unique_apps, 0, list[p]).apps, list, p + 1)

\* list(d.values())
DictValuesButLast(d) == [i \in 1..(Len(d) - 1) |-> d[i].value]

DictValues(d) == [i \in 1..Len(d) |-> d[i].value]

IsRecent(app) == app.date = "recent"

\* filter_apps_by_date: the records whose date parses and is not before the
\* cutoff, in order
FilterAppsByDate(apps) == SelectSeq(apps, IsRecent)

\* app.get('primaryGenreName', 'Unknown')
CategoryOf(app) == IF app.genre = "none" THEN "Unknown" ELSE app.genre

RECURSIVE ByCategorySkipsUnknown(_, _, _)
ByCategorySkipsUnknown(by_category, recent_apps, p) ==
    IF p > Len(recent_apps) THEN by_category
    ELSE LET category == CategoryOf(recent_apps[p])
             count == IF DictHas(by_category, category)
                      THEN DictGet(by_category, category) ELSE 0
         IN  ByCategorySkipsUnknown(
                 IF category = "Unknown" THEN by_category
                 ELSE DictSet(by_category, category, count + 1), recent_apps, p + 1)

\* "for app in recent_apps": by_category[category] += 1, from 0 for a new
\* category (the by_date counts of the same loop are not modelled)
RECURSIVE ByCategory(_, _, _)
ByCategory(by_category, recent_apps, p) ==
    IF p > Len(recent_apps) THEN by_category
    ELSE LET category == CategoryOf(recent_apps[p])
             count == IF DictHas(by_category, category)
                      THEN DictGet(by_category, category) ELSE 0
         IN  ByCategory(DictSet(by_category, category, count + 1), recent_apps, p + 1)

\* the whole call; the summary line divides total_recent by total_searched
GetRecentApps(st, answers, valid) ==
    LET searched == RecentSearchLoop(st, <<>>, answers, 1)
        collected == RecentCategoryLoop(searched.stats, searched.list, answers, valid, 1)
        unique == DictValues(RecentUnique(<<>>, collected.list, 1))
        recent_apps == FilterAppsByDate(unique)
    IN  [stats |-> collected.stats,
         result |-> [called |-> TRUE, raised |-> Len(unique) = 0,
                     all_apps |-> collected.list,
                     recent_apps |-> recent_apps,
                     total_searched |-> Len(unique), total_recent |-> Len(recent_apps),
                     by_category |-> ByCategory(<<>>, recent_apps, 1)]]

\* ------------------------------------------------------------- save_data
\* number of save_data calls looked at
MaxSaves == 2

\* how the write ends: done; open() raises (no file); json.dump raises
\* after the file was opened (a file with part of the text)
IOOutcomes == {"ok", "open_fails", "write_fails"}

NoDocument == [name |-> 0, items |-> <<>>, complete |-> FALSE]

\* what one save_data call does: raised = the exception leaves the call,
\* logged = logger.error was called, path = a filepath is returned, wrote =
\* a file was created or replaced, doc = that file
Saved(raised, logged, path, wrote, doc) ==
    [raised |-> raised, logged |-> logged, path |-> path, wrote |-> wrote, doc |-> doc]

\* save_data of ExtendedITunesCollector, QuickITunesCollector and
\* ComprehensiveCollector: no try around open / json.dump; ts is the
\* second of the clock that names the file
CollectorSaveData(apps, io, ts) ==
    LET apps_list == DictValues(apps) IN
    IF io = "open_fails" THEN Saved(TRUE, FALSE, FALSE, FALSE, NoDocument)
    ELSE IF io = "write_fails"
    THEN Saved(TRUE, FALSE, FALSE, TRUE, [name |-> ts, items |-> <<>>, complete |-> FALSE])
    ELSE Saved(FALSE, FALSE, TRUE, TRUE, [name |-> ts, items |-> apps_list, complete |-> TRUE])

\* ITunesAPIClient.save_data(data, filename): "except Exception" logs the
\* error; the call returns None either way
ApiSaveData(data, io, ts) ==
    IF io = "open_fails" THEN Saved(FALSE, TRUE, FALSE, FALSE, NoDocument)
    ELSE IF io = "write_fails"
    THEN Saved(FALSE, TRUE, FALSE, TRUE, [name |-> ts, items |-> <<>>, complete |-> FALSE])
    ELSE Saved(FALSE, FALSE, FALSE, TRUE, [name |-> ts, items |-> data, complete |-> TRUE])

SaveData(k, apps, io, ts) ==
    IF k \in ApiKinds THEN ApiSaveData(DictValues(apps), io, ts)
    ELSE CollectorSaveData(apps, io, ts)

\* persist before any save_data call:
\*   calls   number of save_data calls made
\*   files   the data directory: file name -> document
\*   docs    the document of every call, in call order
\*   last    the latest call: how the write ended and what the call did
\*   main    main(): running, finished (returned), crashed (an exception
\*           left it)
\*   handed  what the collect method has returned to main: nothing, the
\*           collection ("apps") or its size ("count")
\*   clock   the current second
InitPersist ==
    [calls |-> 0, files |-> <<>>, docs |-> <<>>,
     last |-> [io |-> "none", out |-> Saved(FALSE, FALSE, FALSE, FALSE, NoDocument)],
     main |-> "running", handed |-> "nothing", clock |-> 1]

\* persist after a save_data call that ended as out
AfterSave(ps, io, ts, out) ==
    [ps EXCEPT !.calls = @ + 1,
               !.files = IF out.wrote THEN DictSet(@, out.doc.name, out.doc) ELSE @,
               !.docs = Append(@, out.doc),
               !.last = [io |-> io, out |-> out],
               !.clock = ts]

\* ------------------------------------------------------------- the run
\* "for term in ...: self.search_apps(term)": the next query follows unless
\* an exception leaves the call, which ends the loop
LoopNextRetries(i, ret) ==
    IF ret.raised THEN NumQueries + 1 ELSE IF ret.error THEN i ELSE i + 1

LoopNext(i, ret) == IF ret.raised THEN NumQueries + 1 ELSE i + 1

\* search_batch: "except ...: continue" and the normal end of the body both
\* go on with the next (term, params)
BatchNextBreaks(i, ret) == IF ret.error THEN NumQueries + 1 ELSE i + 1

BatchNext(i, ret) == i + 1

\* ------------------------------------------- the request's parameters
\* "API max 200": the literal in min(limit, 200)
ApiMax == 200

\* the limits a caller passes: negative, zero, small, around ApiMax, beyond
Limits == {-1, 0, 1, ApiMax - 1, ApiMax, ApiMax + 1, MaxLimit}

\* APP_CATEGORIES["games"]
GamesGenreId == 6014

\* one keyword argument of a call, when the caller passes it
Keyword(passed, name, v) == IF passed THEN <<[key |-> name, value |-> v]>> ELSE <<>>

\* the keyword arguments of a call, in the order the caller wrote them:
\* limit=..., genreId=... (run_quick_collection passes it), version=...
KeywordArgs ==
    {Keyword(hl, "limit", l) \o Keyword(hg, "genreId", GamesGenreId)
                             \o Keyword(hv, "version", 2) :
        hl \in BOOLEAN, l \in Limits, hg \in BOOLEAN, hv \in BOOLEAN}

\* "limit: int = 200": a keyword that names a parameter is bound to it
Bind(keywords, name, default) ==
    IF DictHas(keywords, name) THEN DictGet(keywords, name) ELSE default

\* **kwargs: the keywords that name no parameter
Kwargs(keywords, names) == SelectSeq(keywords, LAMBDA e : e.key \notin names)

\* {..., **kwargs}: the entries of kwargs are set one after the other
RECURSIVE DictUpdate(_, _)
DictUpdate(d, kwargs) ==
    IF kwargs = <<>> THEN d
    ELSE DictUpdate(DictSet(d, Head(kwargs).key, Head(kwargs).value), Tail(kwargs))

CapNone(limit) == limit

\* min(limit, 200)
Cap(limit) == IF limit < ApiMax THEN limit ELSE ApiMax

\* what the call did: raised = TypeError at the call, sent = the params of
\* the request.  The entries term, country, entity and media carry strings
\* that the caller's limit has no part in; they are left out.
NoParams == [keywords |-> <<>>, called |-> FALSE, raised |-> FALSE, sent |-> <<>>]

\* search_apps(self, term, limit=200, **kwargs) up to session.get
SearchParams(keywords) ==
    LET limit == Bind(keywords, "limit", ApiMax)
        kwargs == Kwargs(keywords, {"term", "limit"})
    IN  [keywords |-> keywords, called |-> TRUE, raised |-> FALSE,
         sent |-> DictUpdate(<<[key |-> "limit", value |-> Cap(limit)]>>, kwargs)]

\* get_apps_by_category(self, category_name, limit=200) with a name of
\* APP_CATEGORIES, up to session.get; any other keyword is a TypeError
CategoryParams(keywords) ==
    IF Kwargs(keywords, {"category_name", "limit"}) # <<>>
    THEN [keywords |-> keywords, called |-> TRUE, raised |-> TRUE, sent |-> <<>>]
    ELSE [keywords |-> keywords, called |-> TRUE, raised |-> FALSE,
          sent |-> <<[key |-> "genreId", value |-> GamesGenreId],
                     [key |-> "limit", value |-> Cap(Bind(keywords, "limit", ApiMax))]>>]

\* ----------------------------------------- two orders of one query list
\* the orders a query list can be given in
QueryOrders ==
    {f \in [1..NumQueries -> 1..NumQueries] : \A i, j \in 1..NumQueries : f[i] = f[j] => i = j}

\* the answers a query can get once n apps have come up: the failures, a
\* body without "results", and result lists of records (trackId 0 = falsy)
\* and non-dict elements
OrderResponses(n) ==
    LET items == [dict : {TRUE}, trackId : 0..OrderIds] \cup {[dict |-> FALSE, trackId |-> 0]}
        lists == UNION {[1..m -> items] : m \in 0..OrderLen}
    IN  FailureResponses \cup {Resp("body", FALSE, <<>>, TRUE, 0)}
          \cup {r \in {Resp("body", TRUE, rs, TRUE, Len(rs)) : rs \in lists} :
                  Numbered(r.results, n)}

\* what each of len queries is answered with, the apps numbered as they
\* come up, n of them having come up before
RECURSIVE AnswerLists(_, _)
AnswerLists(len, n) ==
    IF len = 0 THEN {<<>>}
    ELSE UNION {{<<r>> \o rest :
                   rest \in AnswerLists(len - 1,
                              Max({n} \cup {r.results[p].trackId : p \in 1..Len(r.results)}))} :
                r \in OrderResponses(n)}

NoCollector == [apps |-> <<>>, stats |-> InitStats]

NoOrder == [answers |-> <<>>, queries |-> <<>>, ran |-> FALSE,
            listed |-> NoCollector, permuted |-> NoCollector]

RECURSIVE CollectUntilFailure(_, _, _, _)
CollectUntilFailure(answers, queries, i, c) ==
    IF i > Len(queries) THEN c
    ELSE LET out == ExtendedSearchApps(c.apps, c.stats, answers[queries[i]], queries[i])
         IN  IF out.ret.none THEN [apps |-> out.apps, stats |-> out.stats]
             ELSE CollectUntilFailure(answers, queries, i + 1,
                                      [apps |-> out.apps, stats |-> out.stats])

\* "for term in queries: self.search_apps(term)" from the i-th query on;
\* query q is answered with answers[q] whenever it is asked
RECURSIVE Collect(_, _, _, _)
Collect(answers, queries, i, c) ==
    IF i > Len(queries) THEN c
    ELSE LET out == ExtendedSearchApps(c.apps, c.stats, answers[queries[i]], queries[i])
         IN  Collect(answers, queries, i + 1, [apps |-> out.apps, stats |-> out.stats])

\* ------------------------------------------- AppStoreScraper.get_page
\* what one attempt meets: self.ua.random raises (no request is sent),
\* session.get raises (timeout=10 included), or a response with a status
Attempts == {"ua_raises", "get_raises", "200", "429", "other"}

ScraperStats == [pages_scraped |-> 0, apps_found |-> 0, errors |-> 0]

\* scraper before any get_page call:
\*   stats    self.stats
\*   phase    idle (no call), loop (in "for attempt in range(retries)"),
\*            returned
\*   retries, attempt   the argument and the loop variable
\*   sent     session.get calls of this call that sent a request
\*   oks      200 responses this call has got
\*   sleeps   time.sleep calls of this call
\*   text     the call returned response.text (FALSE: nothing yet, or None)
\*   before   self.stats when the call began
\*   pages    get_page calls begun
NoScraper ==
    [stats |-> ScraperStats, phase |-> "idle", retries |-> 0, attempt |-> 0,
     sent |-> 0, oks |-> 0, sleeps |-> 0, text |-> FALSE,
     before |-> ScraperStats, pages |-> 0]

NextAttemptRateLimited(attempt, met) == IF met = "429" THEN attempt ELSE attempt + 1

\* range(retries): the loop variable after an attempt that did not return
NextAttempt(attempt, met) == attempt + 1

\* the sleeps of one attempt that did not return: the 429 wait, and the
\* delay before the next attempt
AttemptSleeps(attempt, retries, met) ==
    (IF met = "429" THEN 1 ELSE 0) + (IF attempt < retries - 1 THEN 1 ELSE 0)

\* --------------------------------------------- app_store_chart_scraper
\* One <a href> of the chart page: app = the href contains "/app/", id = the
\* digits that follow "/id" in it (0: the href has no "/id<digits>").  The
\* link's text and url are its own, so its place in the page stands for them.
Links == [app : BOOLEAN, id : 0..ChartIds]

Pages == UNION {[1..n -> Links] : n \in 0..ChartLinks}

RetainedAgain(link, ids) == link.app /\ link.id # 0

\* the link makes an entry: '"/app/" in href and re.search(...)' and not
\* 'app_id in seen'
Retained(link, ids) == link.app /\ link.id # 0 /\ link.id \notin ids

\* "for a in soup.find_all('a', href=True)" from link p on
RECURSIVE ParseLoop(_, _, _, _)
ParseLoop(html, p, apps, ids) ==
    IF p > Len(html) THEN apps
    ELSE IF Retained(html[p], ids)
    THEN ParseLoop(html, p + 1, Append(apps, [app_id |-> html[p].id, link |-> p]),
                   ids \cup {html[p].id})
    ELSE ParseLoop(html, p + 1, apps, ids)

\* parse_chart: the entries, then "app['rank'] = i" by enumerate from 1
ParseChart(html) ==
    LET apps == ParseLoop(html, 1, <<>>, {}) IN
    [i \in 1..Len(apps) |->
        [app_id |-> apps[i].app_id, link |-> apps[i].link, rank |-> i]]

\* Python's basic[:limit]
Slice(basic, limit) ==
    LET n == IF limit >= 0 THEN (IF limit < Len(basic) THEN limit ELSE Len(basic))
             ELSE (IF Len(basic) + limit > 0 THEN Len(basic) + limit ELSE 0)
    IN  SubSeq(basic, 1, n)

\* "if limit: basic = basic[:limit]"
Limited(basic, limit) == IF limit # 0 THEN Slice(basic, limit) ELSE basic

\* what one itunes_lookup meets: an exception (session.get, r.json(), or
\* data["results"][0]), a status other than 200, resultCount 0 or absent, a
\* record, a record without trackName
Lookups == {"raises", "non200", "zero", "found", "unnamed"}

ItunesLookupSwallows(met) ==
    [raised |-> FALSE, meta |-> IF met \in {"found", "unnamed"} THEN met ELSE "empty"]

\* itunes_lookup: {} for a non-200 status and for no result
ItunesLookup(met) ==
    [raised |-> met = "raises",
     meta |-> IF met \in {"found", "unnamed"} THEN met ELSE "empty"]

\* the row of scrape_chart: name is 'meta.get("trackName") or
\* app.get("name")', the other metadata fields are meta.get(...)
Row(app, meta) ==
    [rank |-> app.rank, app_id |-> app.app_id, link |-> app.link,
     name |-> IF meta = "found" THEN "trackName" ELSE "chart",
     metadata |-> IF meta = "empty" THEN "null" ELSE "meta"]

\* chart before the call:
\*   html   the chart page's links;  limit   the limit argument
\*   phase  idle, looking (in "for app in basic"), returned, raised
\*   parsed, basic   parse_chart's result, and what is left after the limit
\*   i      the entry the loop is at;  rows   the local list
\*   met    what each lookup so far has met;  sleeps   time.sleep calls
\*   out    the returned list
NoChart ==
    [html |-> <<>>, limit |-> 0, phase |-> "idle", parsed |-> <<>>, basic |-> <<>>,
     i |-> 1, rows |-> <<>>, met |-> <<>>, sleeps |-> 0, out |-> <<>>]

\* ------------------------------ TopAppsCollector.get_top_apps_search
\* "results[:50]" and the weight "50 - position"
Window == 50

\* one pass of "for position, app in enumerate(results[:50])" for the record
\* at place p (position p - 1) of the answer to term c: count its weight,
\* keep the record if its trackId is new
TopStep(frequency, apps, app, p) ==
    IF Truthy(app.trackId)
    THEN [frequency |-> DictSet(frequency, app.trackId,
                          (IF DictHas(frequency, app.trackId)
                           THEN DictGet(frequency, app.trackId) ELSE 0)
                          + (Window - (p - 1))),
          apps |-> IF DictHas(apps, app.trackId) THEN apps
                   ELSE DictSet(apps, app.trackId, app)]
    ELSE [frequency |-> frequency, apps |-> apps]

\* the loop stops where app.get raises; what was counted before stays
RECURSIVE TopLoop(_, _, _, _, _)
TopLoop(frequency, apps, results, c, p) ==
    IF p > Len(results) \/ p > Window \/ ~results[p].dict
    THEN [frequency |-> frequency, apps |-> apps]
    ELSE LET t == TopStep(frequency, apps, App(c, p, results[p]), p)
         IN  TopLoop(t.frequency, t.apps, results, c, p + 1)

\* "for term in popular_terms" from term c on: only a 200 answer with a JSON
\* object is looked into; every other answer leaves both dicts alone and
\* the loop goes on
RECURSIVE TopTermsLoop(_, _, _, _)
TopTermsLoop(frequency, apps, answers, c) ==
    IF c > Len(answers) THEN [frequency |-> frequency, apps |-> apps]
    ELSE IF answers[c].kind # "body"
    THEN TopTermsLoop(frequency, apps, answers, c + 1)
    ELSE LET t == TopLoop(frequency, apps, GetResults(answers[c]), c, 1)
         IN  TopTermsLoop(t.frequency, t.apps, answers, c + 1)

\* where entry e goes in a list sorted by score, highest first: behind
\* every entry that scores at least as much (sorted is stable)
RECURSIVE Inserted(_, _)
Inserted(sorted, e) ==
    IF sorted = <<>> THEN <<e>>
    ELSE IF Head(sorted).value >= e.value THEN <<Head(sorted)>> \o Inserted(Tail(sorted), e)
    ELSE <<e>> \o sorted

\* sorted(app_frequency.items(), key=lambda x: x[1], reverse=True)
RECURSIVE SortedByScore(_, _)
SortedByScore(frequency, n) ==
    IF n = 0 THEN <<>> ELSE Inserted(SortedByScore(frequency, n - 1), frequency[n])

\* "for rank, (app_id, score) in enumerate(sorted_apps[:limit], 1)"
TopApps(frequency, apps, limit) ==
    LET cut == Slice(SortedByScore(frequency, Len(frequency)), limit) IN
    [rank \in 1..Len(cut) |->
        [trackId |-> cut[rank].key,
         call |-> DictGet(apps, cut[rank].key).call,
         pos |-> DictGet(apps, cut[rank].key).pos,
         rank |-> rank, popularity_score |-> cut[rank].value]]

NoTop == [answers |-> <<>>, limit |-> 0, called |-> FALSE, top_apps |-> <<>>]

\* nothing outside a collector's run has happened
ToolsIdle ==
    /\ params = NoParams /\ order = NoOrder /\ scraper = NoScraper
    /\ chart = NoChart /\ top = NoTop

Init ==
    /\ kind \in Kinds
    /\ state = "Idle"
    /\ idx = 1
    /\ all_apps = <<>>
    /\ stats = InitStats
    /\ calls = <<>>
    /\ last = [resp |-> "none", junk |-> FALSE, ret |-> Ret(TRUE, 0, FALSE, FALSE)]
    /\ seen = InitSeen
    /\ pending = FALSE
    /\ requests = 0
    /\ recent = NoRecent
    /\ persist = InitPersist
    /\ ToolsIdle

\* collect_comprehensive / main / collect_all is entered
StartRun ==
    /\ state = "Idle"
    /\ state' = "Running"
    /\ UNCHANGED <<kind, idx, all_apps, stats, calls, last, seen, pending, requests, recent, persist, tools>>

\* "self.session.get(...)" is called for query idx; the call blocks until
\* the service has answered or the transport has given up
SendRequestNoWait ==
    /\ state = "Running" /\ idx <= NumQueries
    /\ pending' = TRUE
    /\ requests' = requests + 1
    /\ UNCHANGED <<kind, state, idx, all_apps, stats, calls, last, seen, recent, persist, tools>>

SendRequest ==
    /\ state = "Running" /\ idx <= NumQueries
    /\ ~pending
    /\ pending' = TRUE
    /\ requests' = requests + 1
    /\ UNCHANGED <<kind, state, idx, all_apps, stats, calls, last, seen, recent, persist, tools>>

\* call number Len(calls) + 1 requests query idx, is answered with r and
\* ends as out
Record(out, r) ==
    /\ calls' = Append(calls, idx)
    /\ last' = LastCall(r, out.ret)
    /\ seen' = SeenAfter(seen, r, Len(calls) + 1, out.ret)
    /\ pending' = FALSE

ExtendedSearch ==
    /\ kind = "extended" /\ state = "Running" /\ idx <= NumQueries
    /\ pending
    /\ \E r \in Responses(kind, seen.ids) :
         LET out == ExtendedSearchApps(all_apps, stats, r, Len(calls) + 1) IN
         /\ all_apps' = out.apps
         /\ stats' = out.stats
         /\ Record(out, r)
         /\ idx' = LoopNext(idx, out.ret)
    /\ UNCHANGED <<kind, state, requests, recent, persist, tools>>

QuickSearch ==
    /\ kind = "quick" /\ state = "Running" /\ idx <= NumQueries
    /\ pending
    /\ \E r \in Responses(kind, seen.ids) :
         LET out == QuickSearchApps(all_apps, stats, r, Len(calls) + 1) IN
         /\ all_apps' = out.apps
         /\ stats' = out.stats
         /\ Record(out, r)
         /\ idx' = LoopNext(idx, out.ret)
    /\ UNCHANGED <<kind, state, requests, recent, persist, tools>>

BatchStep ==
    /\ kind = "comprehensive" /\ state = "Running" /\ idx <= NumQueries
    /\ pending
    /\ \E r \in Responses(kind, seen.ids) :
         LET out == BatchIteration(all_apps, stats, r, Len(calls) + 1) IN
         /\ all_apps' = out.apps
         /\ stats' = out.stats
         /\ Record(out, r)
         /\ idx' = BatchNext(idx, out.ret)
    /\ UNCHANGED <<kind, state, requests, recent, persist, tools>>

ApiSearch ==
    /\ kind = "api" /\ state = "Running" /\ idx <= NumQueries
    /\ pending
    /\ \E r \in Responses(kind, seen.ids) :
         LET out == ApiSearchApps(all_apps, stats, r, Len(calls) + 1) IN
         /\ all_apps' = out.apps
         /\ stats' = out.stats
         /\ Record(out, r)
         /\ idx' = LoopNext(idx, out.ret)
    /\ UNCHANGED <<kind, state, requests, recent, persist, tools>>

\* "for category in ...: client.get_apps_by_category(category)", the request
\* answered
ApiCategory ==
    /\ kind = "category" /\ state = "Running" /\ idx <= NumQueries
    /\ pending
    /\ \E r \in Responses(kind, seen.ids) :
         LET out == ApiGetAppsByCategory(all_apps, stats, r, Len(calls) + 1) IN
         /\ all_apps' = out.apps
         /\ stats' = out.stats
         /\ Record(out, r)
         /\ idx' = LoopNext(idx, out.ret)
    /\ UNCHANGED <<kind, state, requests, recent, persist, tools>>

\* get_apps_by_category with a name that is not a category
ApiCategoryInvalid ==
    /\ kind = "category" /\ state = "Running" /\ idx <= NumQueries
    /\ ~pending
    /\ LET out == ApiGetAppsByCategory(all_apps, stats, InvalidCategory, Len(calls) + 1) IN
         /\ all_apps' = out.apps
         /\ stats' = out.stats
         /\ Record(out, InvalidCategory)
         /\ idx' = LoopNext(idx, out.ret)
    /\ UNCHANGED <<kind, state, requests, recent, persist, tools>>

\* a loop of get_app_by_id calls, the request answered
ApiLookup ==
    /\ kind = "lookup" /\ state = "Running" /\ idx <= NumQueries
    /\ pending
    /\ \E r \in Responses(kind, seen.ids) :
         LET out == ApiGetAppById(all_apps, stats, r, Len(calls) + 1) IN
         /\ all_apps' = out.apps
         /\ stats' = out.stats
         /\ Record(out, r)
         /\ idx' = LoopNext(idx, out.ret)
    /\ UNCHANGED <<kind, state, requests, recent, persist, tools>>

\* the query list is exhausted
FinishRunEarly ==
    /\ state = "Running" /\ ~pending
    /\ state' = "Done"
    /\ UNCHANGED <<kind, idx, all_apps, stats, calls, last, seen, pending, requests, recent, persist, tools>>

FinishRun ==
    /\ state = "Running" /\ idx > NumQueries
    /\ state' = "Done"
    /\ UNCHANGED <<kind, idx, all_apps, stats, calls, last, seen, pending, requests, recent, persist, tools>>

\* main (ComprehensiveCollector: collect_all) calls save_data; an exception
\* that leaves save_data leaves main too; after the save collect_all
\* returns len(self.all_apps)
SaveAtEndOfRun ==
    /\ state = "Done" /\ persist.main = "running" /\ persist.calls = 0
    /\ \E io \in IOOutcomes :
         LET out == SaveData(kind, all_apps, io, persist.clock) IN
         persist' = [AfterSave(persist, io, persist.clock, out) EXCEPT
                       !.main = IF out.raised THEN "crashed" ELSE "finished",
                       !.handed = IF ~out.raised /\ kind = "comprehensive"
                                  THEN "count" ELSE @]
    /\ UNCHANGED <<kind, state, idx, all_apps, stats, calls, last, seen, pending,
                   requests, recent, tools>>

Next ==
    \/ StartRun
    \/ SendRequest
    \/ ExtendedSearch
    \/ QuickSearch
    \/ BatchStep
    \/ ApiSearch
    \/ ApiCategory
    \/ ApiCategoryInvalid
    \/ ApiLookup
    \/ FinishRun
    \/ SaveAtEndOfRun

Spec == Init /\ [][Next]_vars

\* Every step of a run is a statement of a single-threaded program that is
\* executed once control reaches it, and session.get comes back (with a
\* response or an exception): a run that can take a step takes one.
\* the runs of collect_comprehensive and collect_all
RunInit == Init /\ kind \in {"extended", "comprehensive"}

RunNext ==
    \/ StartRun
    \/ SendRequest
    \/ ExtendedSearch
    \/ BatchStep
    \/ FinishRun

FairSpec == RunInit /\ [][RunNext]_vars /\ WF_vars(RunNext)

\* ------------------------------------------ a get_recent_apps call
\* a fresh client, and the answers its requests will get
RecentInit ==
    /\ kind = "api" /\ state = "Idle" /\ idx = 1
    /\ all_apps = <<>> /\ stats = InitStats /\ calls = <<>>
    /\ last = [resp |-> "none", junk |-> FALSE, ret |-> Ret(TRUE, 0, FALSE, FALSE)]
    /\ seen = InitSeen /\ pending = FALSE /\ requests = 0
    /\ persist = InitPersist
    /\ ToolsIdle
    /\ \E answers \in [1..(RecentTerms + RecentCategories) -> RecentResponses],
          valid \in [1..RecentCategories -> BOOLEAN] :
         /\ AnswersNumbered(answers, 1, 0)
         /\ recent = [answers |-> answers, valid |-> valid, result |-> NoResult]

GetRecentAppsCall ==
    /\ ~recent.result.called
    /\ Len(recent.answers) = RecentTerms + RecentCategories
    /\ LET out == GetRecentApps(stats, recent.answers, recent.valid) IN
         /\ stats' = out.stats
         /\ recent' = [recent EXCEPT !.result = out.result]
         /\ requests' = requests + RecentTerms
                          + Cardinality({j \in 1..RecentCategories : recent.valid[j]})
    /\ UNCHANGED <<kind, state, idx, all_apps, calls, last, seen, pending, persist, tools>>

RecentNext == GetRecentAppsCall

RecentSpec == RecentInit /\ [][RecentNext]_vars

\* ------------------------------------------ the end of main: save_data
\* search_apps / search_batch iteration of class k
Handler(k, apps, st, r, c) ==
    CASE k = "extended" -> ExtendedSearchApps(apps, st, r, c)
      [] k = "quick" -> QuickSearchApps(apps, st, r, c)
      [] k = "comprehensive" -> BatchIteration(apps, st, r, c)
      [] k = "api" -> ApiSearchApps(apps, st, r, c)

\* answers the runs that end in save_data have got
SavedRunAnswers ==
    {Resp("exc", FALSE, <<>>, FALSE, 0), Resp("body", TRUE, <<>>, TRUE, 0),
     GameResponse, SocialResponse}

\* the collector after the queries i..NumQueries were answered by answers
RECURSIVE RunAfter(_, _, _, _)
RunAfter(k, answers, i, s) ==
    IF i > NumQueries THEN s
    ELSE LET out == Handler(k, s.apps, s.stats, answers[i], i)
         IN  RunAfter(k, answers, i + 1,
                 [apps |-> out.apps, stats |-> out.stats,
                  calls |-> Append(s.calls, i),
                  last |-> LastCall(answers[i], out.ret),
                  seen |-> SeenAfter(s.seen, answers[i], i, out.ret)])

\* the queries of the run are over; main goes on to save_data.
\* collect_comprehensive has returned all_apps to main, and the search loop
\* of ITunesAPIClient's main has kept the returned lists; collect_all is
\* still running, and QuickITunesCollector's collect methods return nothing
PersistInit ==
    /\ kind \in {"extended", "quick", "comprehensive", "api"}
    /\ state = "Done" /\ idx = NumQueries + 1
    /\ pending = FALSE /\ requests = NumQueries
    /\ recent = NoRecent
    /\ ToolsIdle
    /\ \E answers \in [1..NumQueries -> SavedRunAnswers] :
         LET s == RunAfter(kind, answers, 1,
                     [apps |-> <<>>, stats |-> InitStats, calls |-> <<>>,
                      last |-> [resp |-> "none", junk |-> FALSE,
                                ret |-> Ret(TRUE, 0, FALSE, FALSE)],
                      seen |-> InitSeen])
         IN  /\ all_apps = s.apps /\ stats = s.stats /\ calls = s.calls
             /\ last = s.last /\ seen = s.seen
    /\ persist = [InitPersist EXCEPT
                     !.handed = IF kind \in {"extended", "api"} THEN "apps" ELSE "nothing"]

\* save_data is called once more on the same collector, in the same second
\* or a later one
SaveAgain ==
    /\ state = "Done" /\ persist.main = "finished"
    /\ persist.calls >= 1 /\ persist.calls < MaxSaves
    /\ \E io \in IOOutcomes, ts \in {persist.clock, persist.clock + 1} :
         LET out == SaveData(kind, all_apps, io, ts) IN
         persist' = AfterSave(persist, io, ts, out)
    /\ UNCHANGED <<kind, state, idx, all_apps, stats, calls, last, seen, pending,
                   requests, recent, tools>>

PersistNext == SaveAtEndOfRun \/ SaveAgain

PersistSpec == PersistInit /\ [][PersistNext]_vars

\* ------------------------------------- one call and its request params
\* a fresh object and the keyword arguments of the call to come
ParamsInit ==
    /\ kind \in {"extended", "quick", "api", "category"}
    /\ state = "Idle" /\ idx = 1
    /\ all_apps = <<>> /\ stats = InitStats /\ calls = <<>>
    /\ last = [resp |-> "none", junk |-> FALSE, ret |-> Ret(TRUE, 0, FALSE, FALSE)]
    /\ seen = InitSeen /\ pending = FALSE /\ requests = 0
    /\ recent = NoRecent /\ persist = InitPersist
    /\ order = NoOrder /\ scraper = NoScraper /\ chart = NoChart /\ top = NoTop
    /\ \E keywords \in KeywordArgs : params = [NoParams EXCEPT !.keywords = keywords]

\* the call builds params and reaches session.get(..., params=params)
BuildParams ==
    /\ ~params.called
    /\ params' = IF kind = "category" THEN CategoryParams(params.keywords)
                                      ELSE SearchParams(params.keywords)
    /\ pending' = ~params'.raised
    /\ requests' = IF params'.raised THEN requests ELSE requests + 1
    /\ UNCHANGED <<kind, state, idx, all_apps, stats, calls, last, seen, recent, persist,
                   order, scraper, chart, top>>

ParamsNext == BuildParams

ParamsSpec == ParamsInit /\ [][ParamsNext]_vars

\* ------------------------------ one query list collected in two orders
\* the variables of a collector's run, for the functions that have no part
\* in it
run == <<kind, state, idx, all_apps, stats, calls, last, seen, pending, requests,
         recent, persist>>

NoRun ==
    /\ state = "Idle" /\ idx = 1
    /\ all_apps = <<>> /\ stats = InitStats /\ calls = <<>>
    /\ last = [resp |-> "none", junk |-> FALSE, ret |-> Ret(TRUE, 0, FALSE, FALSE)]
    /\ seen = InitSeen /\ pending = FALSE /\ requests = 0
    /\ recent = NoRecent /\ persist = InitPersist

OrderInit ==
    /\ kind = "extended" /\ NoRun
    /\ params = NoParams /\ scraper = NoScraper /\ chart = NoChart /\ top = NoTop
    /\ \E answers \in AnswerLists(NumQueries, 0), queries \in QueryOrders :
         order = [NoOrder EXCEPT !.answers = answers, !.queries = queries]

\* both collectors run their loop to the end
CollectBoth ==
    /\ ~order.ran
    /\ order' = [order EXCEPT
                   !.ran = TRUE,
                   !.listed = Collect(order.answers, [i \in 1..NumQueries |-> i], 1, NoCollector),
                   !.permuted = Collect(order.answers, order.queries, 1, NoCollector)]
    /\ UNCHANGED <<run, params, scraper, chart, top>>

OrderNext == CollectBoth

OrderSpec == OrderInit /\ [][OrderNext]_vars

\* ------------------------------------------------ get_page calls
ScraperInit ==
    /\ kind = "extended" /\ NoRun
    /\ params = NoParams /\ order = NoOrder /\ chart = NoChart /\ top = NoTop
    /\ scraper = NoScraper

\* get_page(url, retries) is called
GetPage ==
    /\ scraper.phase \in {"idle", "returned"} /\ scraper.pages < MaxPages
    /\ \E retries \in 0..MaxRetries :
         scraper' = [scraper EXCEPT
                       !.phase = "loop", !.retries = retries, !.attempt = 0,
                       !.sent = 0, !.oks = 0, !.sleeps = 0, !.text = FALSE,
                       !.before = scraper.stats, !.pages = @ + 1]
    /\ UNCHANGED <<run, params, order, chart, top>>

\* one pass of the loop body
Attempt ==
    /\ scraper.phase = "loop" /\ scraper.attempt < scraper.retries
    /\ \E met \in Attempts :
         LET sent == IF met = "ua_raises" THEN scraper.sent ELSE scraper.sent + 1 IN
         scraper' =
           IF met = "200"
           THEN [scraper EXCEPT
                   !.stats.pages_scraped = @ + 1, !.sent = sent, !.oks = @ + 1,
                   !.text = TRUE, !.phase = "returned"]
           ELSE [scraper EXCEPT
                   !.sent = sent,
                   !.sleeps = @ + AttemptSleeps(scraper.attempt, scraper.retries, met),
                   !.attempt = NextAttempt(scraper.attempt, met)]
    /\ UNCHANGED <<run, params, order, chart, top>>

\* the loop is over: count the error, return None
GiveUp ==
    /\ scraper.phase = "loop" /\ scraper.attempt >= scraper.retries
    /\ scraper' = [scraper EXCEPT !.stats.errors = @ + 1, !.phase = "returned"]
    /\ UNCHANGED <<run, params, order, chart, top>>

ScraperNext == GetPage \/ Attempt \/ GiveUp

\* session.get is given timeout=10 and every sleep is finite, so a call that
\* has begun takes its next step
ScraperSpec == ScraperInit /\ [][ScraperNext]_vars /\ WF_vars(Attempt \/ GiveUp)

\* ------------------------------------------------ one scrape_chart call
\* the chart page the store will serve, and the limit of the call
ChartInit ==
    /\ kind = "extended" /\ NoRun
    /\ params = NoParams /\ order = NoOrder /\ scraper = NoScraper /\ top = NoTop
    /\ \E html \in Pages, limit \in (-1)..ChartLimit :
         chart = [NoChart EXCEPT !.html = html, !.limit = limit]

\* scrape_chart up to the loop: fetch raises (transport error or
\* raise_for_status) or the page is parsed and cut to the limit
FetchAndParse ==
    /\ chart.phase = "idle"
    /\ \E fetched \in BOOLEAN :
         chart' = IF ~fetched THEN [chart EXCEPT !.phase = "raised"]
                  ELSE [chart EXCEPT
                          !.phase = "looking",
                          !.parsed = ParseChart(chart.html),
                          !.basic = Limited(ParseChart(chart.html), chart.limit)]
    /\ UNCHANGED <<run, params, order, scraper, top>>

\* one pass of "for app in basic"
LookupApp ==
    /\ chart.phase = "looking" /\ chart.i <= Len(chart.basic)
    /\ \E met \in Lookups :
         LET looked == ItunesLookup(met) IN
         chart' = IF looked.raised
                  THEN [chart EXCEPT !.phase = "raised", !.met = Append(@, met)]
                  ELSE [chart EXCEPT
                          !.rows = Append(@, Row(chart.basic[chart.i], looked.meta)),
                          !.met = Append(@, met),
                          !.sleeps = @ + 1,
                          !.i = @ + 1]
    /\ UNCHANGED <<run, params, order, scraper, top>>

\* "return rows"
ReturnRows ==
    /\ chart.phase = "looking" /\ chart.i > Len(chart.basic)
    /\ chart' = [chart EXCEPT !.phase = "returned", !.out = chart.rows]
    /\ UNCHANGED <<run, params, order, scraper, top>>

ChartNext == FetchAndParse \/ LookupApp \/ ReturnRows

ChartSpec == ChartInit /\ [][ChartNext]_vars

\* --------------------------------------- one get_top_apps_search call
\* the answers the terms will get, the apps numbered as they come up, and
\* the limit of the call
TopInit ==
    /\ kind = "extended" /\ NoRun
    /\ params = NoParams /\ order = NoOrder /\ scraper = NoScraper /\ chart = NoChart
    /\ \E answers \in [1..TopTerms -> FailureResponses \cup Bodies("extended")],
          limit \in 0..TopLimit :
         /\ AnswersNumbered(answers, 1, 0)
         /\ top = [NoTop EXCEPT !.answers = answers, !.limit = limit]

GetTopAppsSearch ==
    /\ ~top.called
    /\ LET t == TopTermsLoop(<<>>, <<>>, top.answers, 1) IN
         top' = [top EXCEPT !.called = TRUE,
                            !.top_apps = TopApps(t.frequency, t.apps, top.limit)]
    /\ UNCHANGED <<run, params, order, scraper, chart>>

TopNext == GetTopAppsSearch

TopSpec == TopInit /\ [][TopNext]_vars

\* =================================================================
\* Properties
\* =================================================================
Deduping == {"extended", "quick"}

\* C1: in every reachable state of a run of ExtendedITunesCollector,
\* QuickITunesCollector or ComprehensiveCollector, whatever the responses
\* were, all_apps holds no two entries for the same trackId.
DedupInvariant ==
    \A i, j \in 1..Len(all_apps) : i # j => all_apps[i].key # all_apps[j].key

\* a trackId came back in a later call, and that call failed afterwards
DedupWitness ==
    /\ kind = "comprehensive" /\ seen.again /\ Len(all_apps) >= 1
    /\ last.junk /\ last.ret.error

\* C2: in ExtendedITunesCollector and QuickITunesCollector an entry of
\* all_apps, once stored, is never replaced or modified by a later record
\* or a later search_apps call, and the record stored under a trackId is
\* the first one seen for it in query order and result order.
StoredStays ==
    kind \in Deduping =>
        \A i \in 1..Len(all_apps) : Len(all_apps') >= i /\ all_apps'[i] = all_apps[i]

StoredIsFirstSeen ==
    kind \in Deduping =>
        \A i \in 1..Len(all_apps) :
            /\ all_apps[i].value.trackId = all_apps[i].key
            /\ all_apps[i].value.call = seen.first[all_apps[i].key].call
            /\ all_apps[i].value.pos = seen.first[all_apps[i].key].pos

FirstWriteWins == [][StoredStays]_vars /\ []StoredIsFirstSeen

FirstWriteWinsWitness ==
    /\ kind = "quick" /\ seen.again
    /\ \E i \in 1..Len(all_apps) : all_apps[i].value.call = 1

\* C3: in ComprehensiveCollector the record stored under a trackId stays
\* the first-seen one when a later query of the batch returns that trackId
\* again.
BatchStoredStays ==
    kind = "comprehensive" =>
        \A i \in 1..Len(all_apps) : Len(all_apps') >= i /\ all_apps'[i] = all_apps[i]

BatchFirstWriteWins == [][BatchStoredStays]_vars

\* C4: in ExtendedITunesCollector and QuickITunesCollector, after every
\* search_apps call, whatever its outcome, stats["unique_apps"] equals the
\* number of keys of all_apps.
UniqueAppsIsLen ==
    kind \in Deduping =>
        /\ stats.unique_apps = Cardinality(DictKeys(all_apps))
        /\ stats.unique_apps = Len(all_apps)

\* a call that stored a record and then raised inside the loop, after an
\* earlier call had stored one
UniqueAppsIsLenWitness ==
    /\ kind = "extended" /\ Len(calls) = 2
    /\ last.junk /\ last.ret.error
    /\ \E i, j \in 1..Len(all_apps) : all_apps[i].value.call = 1 /\ all_apps[j].value.call = 2

\* C5: in ExtendedITunesCollector stats["total_apps"] >= stats["unique_apps"]
\* after every search_apps call, also when the result list of a 200
\* response is processed only partly.
TotalAtLeastUnique ==
    kind = "extended" => stats.total_apps >= stats.unique_apps

\* C6: stats["total_apps"] is the number of raw records returned so far:
\* in ExtendedITunesCollector the sum of len(results) over the 200
\* responses, in ITunesAPIClient the sum of the lengths of the returned
\* lists.
TotalAppsCountsRawRecords ==
    /\ kind = "extended" => stats.total_apps = seen.raw
    /\ kind = "api" => stats.total_apps = seen.returned

GameThenSocial ==
    kind = "extended" /\ Len(calls) = Len(Scenario) /\ seen.scenario = Len(Scenario)

\* C7: after ExtendedITunesCollector searched "game" (records 1, 2) and then
\* "social" (records 2, 3), all_apps has exactly the keys 1, 2, 3,
\* total_apps is 4, unique_apps is 3 and the record under 2 is the one
\* "game" returned.
EndToEndScenario ==
    GameThenSocial =>
        /\ DictKeys(all_apps) = {1, 2, 3} /\ Len(all_apps) = 3
        /\ stats.total_apps = 4 /\ stats.unique_apps = 3
        /\ DictGet(all_apps, 2) = App(1, 2, Rec(2))

EndToEndWitness == GameThenSocial /\ DictHas(all_apps, 3)

\* a transport exception, a non-200 status, a body that does not parse, a
\* body that is not an object, or a result list with an element that is not
\* a record
FailingResponse(l) ==
    l.resp \in {"exc", "non200", "badjson", "notdict"} \/ l.junk

CallMade == Len(calls') = Len(calls) + 1

\* C8: a search_apps call whose request fails (transport exception, non-200
\* status, malformed or unparsable body) raises nothing; Extended and
\* ITunesAPIClient return None and add exactly 1 to failed_requests, Quick
\* returns 0.
FailureStaysLocal ==
    (/\ CallMade
     /\ kind \in {"extended", "quick", "api"}
     /\ FailingResponse(last'))
    => /\ ~last'.ret.raised
       /\ kind = "quick" => ~last'.ret.none /\ last'.ret.len = 0
       /\ kind \in {"extended", "api"} =>
            /\ last'.ret.none
            /\ stats'.failed_requests = stats.failed_requests + 1

FailedSearchReturnsNone == [][FailureStaysLocal]_vars

\* a transport exception, then a malformed result list
FailedSearchWitness ==
    /\ kind = "extended" /\ Len(calls) = 2
    /\ last.junk /\ last.ret.none
    /\ stats.total_requests = 1 /\ stats.failed_requests = 2

\* C9: every query of the list is attempted exactly once and in order,
\* whether or not earlier queries failed: a run only ends after the last
\* query, and the call after a failed query i is the attempt of query i+1.
EveryQueryAttemptedOnce ==
    kind \in {"extended", "quick", "comprehensive"} =>
        /\ \A c \in 1..Len(calls) : calls[c] = c
        /\ state = "Running" => idx = Len(calls) + 1
        /\ state = "Done" => Len(calls) = NumQueries

\* the run is over and no request of it got an answer with status 200
EveryQueryAttemptedWitness ==
    /\ kind = "extended" /\ state = "Done"
    /\ stats.failed_requests = NumQueries /\ stats.successful_requests = 0

\* C10: a query that ends in failure (Extended: search_apps returns None and
\* counts a failed request; Comprehensive: search_batch logs an error)
\* leaves all_apps and unique_apps as they were before the query.
FailedQueryStep ==
    /\ CallMade
    /\ \/ /\ kind = "extended"
          /\ last'.ret.none
          /\ stats'.failed_requests = stats.failed_requests + 1
       \/ kind = "comprehensive" /\ last'.ret.error

FailedQueryContributesNothing ==
    [][FailedQueryStep => all_apps' = all_apps /\ stats'.unique_apps = stats.unique_apps]_vars

\* the operations that keep the request counters
Counting == {"extended", "api", "category"}

\* C11: after any sequence of search_apps calls (ExtendedITunesCollector,
\* ITunesAPIClient) and get_apps_by_category calls, total_requests equals
\* successful_requests + failed_requests, also when the transport raised or
\* an exception came after the 200 status was seen.
RequestAccounting ==
    (kind \in Counting /\ ~pending) =>
        stats.total_requests = stats.successful_requests + stats.failed_requests

\* the operations whose request sits in try ... finally: time.sleep(...)
Finally == {"extended", "quick"} \cup ApiKinds

RequestSent == requests' = requests + 1

\* the call that ends in this step had sent a request
RequestAnswered == CallMade /\ pending

\* every call that sent a request has slept when it returns, and a request
\* that is not the collector's first is sent after a sleep
DelayStep ==
    /\ RequestAnswered => last'.ret.slept
    /\ (RequestSent /\ requests > 0) => seen.delayed

\* C12: search_apps (ExtendedITunesCollector, QuickITunesCollector,
\* ITunesAPIClient), get_app_by_id and get_apps_by_category sleep on every
\* exit path once a request was attempted (success, non-200, exception), so
\* between two consecutive requests of one collector there is a delay.
DelayOnEveryExit == [][(kind \in Finally) => DelayStep]_vars

\* a second request goes out after the first one ended in the except branch
DelayOnEveryExitWitness ==
    /\ kind = "lookup" /\ requests = 2 /\ pending
    /\ last.resp = "exc" /\ last.ret.error /\ seen.delayed

\* C13: in ComprehensiveCollector.search_batch a delay follows every
\* request, after success and after failure, also when the request or the
\* parsing of its body raises, so two requests never go out back to back.
BatchDelayUnconditional == [][kind = "comprehensive" => DelayStep]_vars

\* C14: a search_apps call (ExtendedITunesCollector, QuickITunesCollector,
\* ITunesAPIClient) sends exactly one request whatever its outcome, and no
\* query is requested a second time, neither within the call nor by the
\* loop that makes the calls.
NoRetry ==
    kind \in {"extended", "quick", "api"} =>
        /\ requests = Len(calls) + (IF pending THEN 1 ELSE 0)
        /\ \A i, j \in 1..Len(calls) : i # j => calls[i] # calls[j]
        /\ requests <= NumQueries

\* every request of the run has failed and the run is over
NoRetryWitness ==
    /\ kind = "api" /\ state = "Done" /\ requests = NumQueries
    /\ last.resp = "non200" /\ stats.failed_requests = NumQueries

\* the loops of the collectors
Loops == {"extended", "quick", "comprehensive"}

\* requests sent and not yet answered
InFlight == requests - Len(calls)

OneAtATime ==
    kind \in Loops => InFlight \in {0, 1} /\ (pending <=> InFlight = 1)

\* a request is sent only when every earlier one is answered, its call
\* has returned and the loop has moved on to the next query of the list;
\* the delay of the call before it is over, where that call had one (the
\* except branch of search_batch has none)
SequentialStep ==
    (kind \in Loops /\ RequestSent) =>
        /\ InFlight = 0 /\ ~pending
        /\ idx = Len(calls) + 1
        /\ \A c \in 1..Len(calls) : calls[c] = c
        /\ requests > 0 => seen.delayed \/ (kind = "comprehensive" /\ last.ret.error)

LifecycleStep ==
    /\ state' # state => <<state, state'>> \in {<<"Idle", "Running">>, <<"Running", "Done">>}
    /\ state = "Done" => requests' = requests /\ stats' = stats /\ ~pending

DoneAttemptedAll ==
    (kind \in {"extended", "comprehensive"} /\ state = "Done") =>
        /\ Len(calls) = NumQueries /\ requests = NumQueries
        /\ \A c \in 1..NumQueries : calls[c] = c

\* C16: a run of collect_comprehensive / collect_all goes Idle -> Running
\* -> Done; whatever succeeds or fails it reaches Done, having attempted
\* every query; in Done no request is sent and no statistic changes.
RunTerminates ==
    /\ [][LifecycleStep]_vars
    /\ []DoneAttemptedAll
    /\ <>(state = "Done")

\* a run that ended although no request of it got through
RunTerminatesWitness ==
    /\ kind = "comprehensive" /\ state = "Done"
    /\ last.resp = "exc" /\ Len(all_apps) = 0 /\ requests = NumQueries

\* C17: get_recent_apps returns a result and raises nothing, whatever
\* requests fail, also when every search and category request fails or
\* brings no record, so that nothing is left after deduplication.
RecentNeverRaises == recent.result.called => ~recent.result.raised

SaveCalled == persist'.calls = persist.calls + 1

\* C18: whenever the destination cannot be written, save_data reports the
\* failure to its caller instead of returning normally
\* (ExtendedITunesCollector, QuickITunesCollector, ComprehensiveCollector,
\* ITunesAPIClient).
SaveFailureSurfaced ==
    [][(SaveCalled /\ persist'.last.io # "ok") => persist'.last.out.raised]_vars

\* C19: if save_data fails at the end of a run of ExtendedITunesCollector
\* or ComprehensiveCollector, all_apps still holds every record and the
\* caller has been handed the collected data; the outcome of the run is not
\* the error alone.
NoWorkLost ==
    (kind \in {"extended", "comprehensive"} /\ persist.main = "crashed") =>
        /\ DictKeys(all_apps) = {k \in 1..MaxId : seen.first[k] # Unseen}
        /\ persist.handed = "apps"

ItemSet(doc) == {doc.items[i] : i \in 1..Len(doc.items)}

\* every document a save_data call completed holds the values of all_apps,
\* one per key, and any two of them hold the same items
DocumentsAreTheCollection ==
    kind \in Loops =>
        \A i \in 1..Len(persist.docs) :
            persist.docs[i].complete =>
                /\ Len(persist.docs[i].items) = Cardinality(DictKeys(all_apps))
                /\ ItemSet(persist.docs[i]) = {DictGet(all_apps, k) : k \in DictKeys(all_apps)}
                /\ \A j \in 1..Len(persist.docs) :
                       persist.docs[j].complete =>
                           ItemSet(persist.docs[j]) = ItemSet(persist.docs[i])

SaveChangesNothing == SaveCalled => all_apps' = all_apps /\ stats' = stats

\* C20: save_data writes one record per key of all_apps, the values only,
\* leaves all_apps and stats as they are, and two consecutive calls on the
\* same all_apps write documents with the same items.
SaveIsPure == []DocumentsAreTheCollection /\ [][SaveChangesNothing]_vars

\* two files, written a second apart, of a collection of three records
SaveIsPureWitness ==
    /\ kind = "extended" /\ Len(all_apps) = 3
    /\ Len(persist.files) = 2
    /\ \A i \in 1..2 : persist.files[i].value.complete

\* the limit the caller passed, 200 when none was passed
PassedLimit == Bind(params.keywords, "limit", ApiMax)

\* C21: the "limit" parameter sent with a request of search_apps or
\* get_apps_by_category is min(limit, 200) for the limit the caller passed,
\* so it never exceeds 200, whatever other keywords the call carries.
LimitCapped ==
    (params.called /\ ~params.raised) =>
        /\ DictHas(params.sent, "limit")
        /\ DictGet(params.sent, "limit")
             = (IF PassedLimit <= 200 THEN PassedLimit ELSE 200)
        /\ DictGet(params.sent, "limit") <= 200

LimitCappedWitness ==
    /\ kind = "quick" /\ params.called /\ ~params.raised /\ requests = 1
    /\ PassedLimit > 200
    /\ DictHas(params.keywords, "genreId") /\ DictHas(params.sent, "genreId")
    /\ DictGet(params.sent, "limit") = 200

\* a new collector: nothing collected, every counter zero, nothing saved
StartsEmpty ==
    state = "Idle" => (all_apps = <<>> /\ stats = InitStats /\ persist = InitPersist)

\* no key leaves all_apps and no counter goes down
GrowthStep ==
    /\ DictKeys(all_apps) \subseteq DictKeys(all_apps')
    /\ \A counter \in DOMAIN stats : stats'[counter] >= stats[counter]

\* save_data is not called while the run still has queries to make
SavedAtTheEnd ==
    (state # "Done" \/ pending) => (persist.calls = 0 /\ persist.files = <<>>)

\* C22: a collector starts with an empty collection and zero counters; over
\* the calls of a run no key is removed from all_apps and no counter
\* decreases; nothing is written to disk before the queries are finished.
MonotonicGrowth == []StartsEmpty /\ [][GrowthStep]_vars /\ []SavedAtTheEnd

MonotonicGrowthWitness ==
    /\ kind = "comprehensive" /\ state = "Done" /\ Len(calls) = NumQueries
    /\ Len(all_apps) >= 2 /\ last.ret.error
    /\ persist.calls = 1 /\ persist.last.out.wrote

\* every key of all_apps is a truthy trackId and is the trackId of its record
KeyIsTrackId ==
    \A i \in 1..Len(all_apps) :
        Truthy(all_apps[i].key) /\ all_apps[i].value.trackId = all_apps[i].key

\* C23: in ExtendedITunesCollector, QuickITunesCollector and
\* ComprehensiveCollector every key of all_apps is a truthy trackId and the
\* record stored under it carries that trackId; a returned record with a
\* missing, None or 0 trackId is never stored, and ExtendedITunesCollector
\* still counts it in total_apps.
KeyRecordConsistency ==
    /\ (kind \in Loops) => KeyIsTrackId
    /\ (kind = "extended" /\ ~pending) => stats.total_apps >= seen.falsy

\* C24: when every query is answered the same whenever it is asked, the
\* set of trackIds in all_apps, unique_apps and total_apps of
\* ExtendedITunesCollector after the run do not depend on the order of the
\* query list.
OrderIndependence ==
    order.ran =>
        /\ DictKeys(order.permuted.apps) = DictKeys(order.listed.apps)
        /\ order.permuted.stats.unique_apps = order.listed.stats.unique_apps
        /\ order.permuted.stats.total_apps = order.listed.stats.total_apps

\* a trackId both queries return is stored with a different record
OrderIndependenceWitness ==
    /\ order.ran /\ order.queries # [i \in 1..NumQueries |-> i]
    /\ \E k \in DictKeys(order.listed.apps) :
         DictGet(order.listed.apps, k) # DictGet(order.permuted.apps, k)
    /\ order.listed.stats.total_apps > order.listed.stats.unique_apps

\* a call makes at most `retries` requests
BoundedRequests == scraper.sent <= scraper.retries /\ scraper.oks <= 1

\* a returned call: either the first 200 response ended it, with its text,
\* or no attempt got a 200 and it returned None
PageOrError ==
    scraper.phase = "returned" =>
        IF scraper.text
        THEN /\ scraper.oks = 1
             /\ scraper.stats.pages_scraped = scraper.before.pages_scraped + 1
             /\ scraper.stats.errors = scraper.before.errors
        ELSE /\ scraper.oks = 0
             /\ scraper.stats.errors = scraper.before.errors + 1
             /\ scraper.stats.pages_scraped = scraper.before.pages_scraped
             /\ (scraper.retries = 0 => scraper.sent = 0)

\* C25: get_page issues at most `retries` requests and stops at the first
\* 200 response, returning its body with pages_scraped one higher and errors
\* unchanged; when no attempt gets a 200 it returns None with errors one
\* higher and pages_scraped unchanged; with retries = 0 it sends nothing and
\* returns None.  Every call returns.
BoundedRetry ==
    /\ []BoundedRequests
    /\ []PageOrError
    /\ (scraper.phase = "loop") ~> (scraper.phase = "returned")

BoundedRetryWitness ==
    /\ scraper.pages = 2 /\ scraper.phase = "returned" /\ scraper.text
    /\ scraper.retries = MaxRetries /\ scraper.sent = MaxRetries - 1
    /\ scraper.attempt = MaxRetries - 1 /\ scraper.sleeps >= 2
    /\ scraper.before.errors = 1

\* where a record handed back by a request stands in the concatenation of
\* the returned lists
PlaceIn(list, app) == CHOOSE p \in 1..Len(list) : list[p] = app

\* the first record with its trackId in the list
FirstOfItsId(list, app) ==
    \A q \in 1..(PlaceIn(list, app) - 1) : list[q].trackId # app.trackId

RECURSIVE SumOfCounts(_, _)
SumOfCounts(d, i) == IF i > Len(d) THEN 0 ELSE d[i].value + SumOfCounts(d, i + 1)

\* C26: a get_recent_apps call that returns has deduplicated, first record
\* kept, the search-term results followed by the category results:
\* total_searched is the number of distinct truthy trackIds returned,
\* recent_apps keeps the order of that list and repeats no trackId,
\* total_recent = len(recent_apps) <= total_searched, and the by_category
\* counts add up to total_recent.
RecentDeduplicated ==
    (recent.result.called /\ ~recent.result.raised) =>
        LET res == recent.result
            list == res.all_apps
            apps == res.recent_apps
        IN  /\ res.total_searched
                 = Cardinality({list[p].trackId : p \in 1..Len(list)} \ {0})
            /\ \A i \in 1..Len(apps) :
                 /\ \E p \in 1..Len(list) : list[p] = apps[i]
                 /\ Truthy(apps[i].trackId)
                 /\ FirstOfItsId(list, apps[i])
            /\ \A i, j \in 1..Len(apps) :
                 i < j => PlaceIn(list, apps[i]) < PlaceIn(list, apps[j])
            /\ res.total_recent = Len(apps)
            /\ res.total_recent <= res.total_searched
            /\ SumOfCounts(res.by_category, 1) = res.total_recent

\* both requests returned records; one trackId came back twice, a recent
\* record without a genre was kept and an old one was dropped
RecentDeduplicatedWitness ==
    /\ recent.result.called /\ ~recent.result.raised
    /\ Len(recent.result.all_apps) = 2 * MaxLen
    /\ recent.result.total_searched = 3 /\ recent.result.total_recent = 2
    /\ Len(recent.result.by_category) = 2
    /\ recent.result.all_apps[1].call = 1 /\ recent.result.all_apps[2 * MaxLen].call = 2

\* a get_apps_by_category call with a name outside APP_CATEGORIES has ended
RejectedCall == kind = "category" /\ CallMade /\ last'.resp = "invalid"

\* C27: get_apps_by_category with a name that is not in APP_CATEGORIES
\* returns None, sends no request, does not sleep, and leaves the four
\* counters and the field statistics as they were.
InvalidCategoryIsInert ==
    [][RejectedCall =>
         /\ last'.ret.none /\ ~last'.ret.raised
         /\ requests' = requests /\ pending' = pending
         /\ ~last'.ret.slept
         /\ stats' = stats
         /\ all_apps' = all_apps]_vars

\* a rejected call after a call that was answered and analysed
InvalidCategoryIsInertWitness ==
    /\ kind = "category" /\ last.resp = "invalid" /\ Len(calls) = 2
    /\ requests = 1 /\ stats.total_requests = 1 /\ stats.field_count > 0
    /\ stats.total_apps > 0

\* the links of the page that name an app
AppLinks == {p \in 1..Len(chart.html) : chart.html[p].app /\ chart.html[p].id # 0}

\* parse_chart's entries: one per app id on the page, made from the first
\* link with that id, in page order, ranked 1..n
ParsedFirstLinks ==
    LET apps == chart.parsed IN
    /\ \A i, j \in 1..Len(apps) : apps[i].app_id = apps[j].app_id => i = j
    /\ {apps[i].app_id : i \in 1..Len(apps)} = {chart.html[p].id : p \in AppLinks}
    /\ \A i \in 1..Len(apps) :
         /\ apps[i].link \in AppLinks
         /\ chart.html[apps[i].link].id = apps[i].app_id
         /\ \A p \in AppLinks : chart.html[p].id = apps[i].app_id => apps[i].link <= p
         /\ apps[i].rank = i
    /\ \A i, j \in 1..Len(apps) : i < j => apps[i].link < apps[j].link

\* the number of entries scrape_chart keeps for a limit that is not negative
Kept ==
    IF chart.limit > 0 /\ chart.limit < Len(chart.parsed) THEN chart.limit
    ELSE Len(chart.parsed)

\* C28: parse_chart returns entries with pairwise distinct app_id, each made
\* from the first link with that id in document order, ranked exactly 1..n
\* in that order; scrape_chart returns one row per retained entry, the
\* first `limit` of them when limit > 0 and all when limit is 0, in rank
\* order.
ChartRows ==
    /\ chart.phase \in {"looking", "returned"} => ParsedFirstLinks
    /\ (chart.phase = "returned" /\ chart.limit >= 0) =>
          /\ Len(chart.out) = Kept
          /\ \A j \in 1..Len(chart.out) :
               /\ chart.out[j].rank = j
               /\ chart.out[j].app_id = chart.parsed[j].app_id
               /\ chart.out[j].link = chart.parsed[j].link

\* a page where an app is linked twice and another link is no app link; the
\* limit cuts the entries
ChartRowsWitness ==
    /\ chart.phase = "returned" /\ chart.limit = 1
    /\ Len(chart.html) = 3 /\ Len(chart.parsed) = 2 /\ Len(chart.out) = 1
    /\ chart.html[1].id = chart.html[2].id /\ chart.html[1].app /\ chart.html[2].app
    /\ chart.parsed[2].link = 3

\* C29: a lookup answered with a status other than 200 or with no result
\* still gives a row for its app, with null metadata and the chart's name,
\* and the loop goes on; the delay follows every completed lookup; an
\* exception raised by a lookup leaves scrape_chart, which then returns no
\* rows at all.
LookupFailures ==
    /\ \A j \in 1..Len(chart.rows) :
         chart.met[j] \in {"non200", "zero"} =>
            /\ chart.rows[j].app_id = chart.basic[j].app_id
            /\ chart.rows[j].metadata = "null" /\ chart.rows[j].name = "chart"
    /\ chart.phase \in {"looking", "returned"} =>
          /\ Len(chart.rows) = Len(chart.met) /\ chart.i = Len(chart.rows) + 1
          /\ chart.sleeps = Len(chart.met)
          /\ \A j \in 1..Len(chart.met) : chart.met[j] # "raises"
    /\ (\E j \in 1..Len(chart.met) : chart.met[j] = "raises") =>
          /\ chart.phase = "raised" /\ chart.out = <<>>
    /\ chart.phase = "returned" => Len(chart.out) = Len(chart.basic)

\* the second lookup raises after the first gave a row without metadata
LookupFailuresWitness ==
    /\ chart.phase = "raised" /\ chart.met = <<"non200", "raises">>
    /\ Len(chart.rows) = 1 /\ chart.sleeps = 1 /\ chart.out = <<>>
    /\ Len(chart.basic) = 2 /\ chart.rows[1].name = "chart"

\* the sightings of trackId k: (term, place) among the first 50 results of
\* the terms answered with status 200 and a JSON object
TopSightings(k) ==
    {<<c, p>> \in (1..Len(top.answers)) \X (1..MaxLen) :
        /\ top.answers[c].kind = "body"
        /\ p <= Len(GetResults(top.answers[c])) /\ p <= 50
        /\ GetResults(top.answers[c])[p].dict
        /\ GetResults(top.answers[c])[p].trackId = k}

RECURSIVE SumOfWeights(_)
SumOfWeights(S) ==
    IF S = {} THEN 0
    ELSE LET s == CHOOSE x \in S : TRUE IN (50 - (s[2] - 1)) + SumOfWeights(S \ {s})

TopSeen == {k \in 1..MaxId : TopSightings(k) # {}}

\* the first sighting of k: the earliest term, and the first place in it
FirstSighting(k) ==
    CHOOSE s \in TopSightings(k) :
        \A t \in TopSightings(k) : s[1] < t[1] \/ (s[1] = t[1] /\ s[2] <= t[2])

\* C30: get_top_apps_search returns min(limit, number of distinct trackIds
\* seen) entries ranked exactly 1..k, popularity_score never rising with the
\* rank, every trackId once and with its first-seen record; the score of an
\* app is the sum of 50 - position over its sightings in the first 50
\* results of every successful term; a failed term adds nothing and the
\* terms after it are still asked.
TopAppsRanked ==
    top.called =>
        LET out == top.top_apps IN
        /\ Len(out) = (IF top.limit < Cardinality(TopSeen) THEN top.limit
                       ELSE Cardinality(TopSeen))
        /\ \A j \in 1..Len(out) :
             /\ out[j].rank = j
             /\ out[j].trackId \in TopSeen
             /\ <<out[j].call, out[j].pos>> = FirstSighting(out[j].trackId)
             /\ out[j].popularity_score = SumOfWeights(TopSightings(out[j].trackId))
        /\ \A i, j \in 1..Len(out) :
             i < j => /\ out[i].popularity_score >= out[j].popularity_score
                      /\ out[i].trackId # out[j].trackId

====
